---- MODULE Spec2Model ----
(***************************************************************************)
(* NHS GP booking system: the GP Connect service (practice lookup,         *)
(* assertion generation, availability search, booking orchestration) and   *)
(* the HTTP endpoints in front of it.                                      *)
(*                                                                         *)
(* Time is counted in milliseconds from 2024-12-02T00:00:00.000Z.          *)
(* Environment variables are strings; "" stands for unset or empty.       *)
(***************************************************************************)
EXTENDS Integers, Sequences, FiniteSets, TLC

VARIABLES
    NODE_ENV,            \* process.env.NODE_ENV
    GP_CONNECT_JWT_KEY,  \* process.env.GP_CONNECT_JWT_KEY (= this.jwtPrivateKey)
    DB_PASSWORD,         \* process.env.DB_PASSWORD
    JWT_SECRET,          \* process.env.JWT_SECRET
    appointments,        \* rows of the local table `appointments`
    practiceHeld,        \* Appointment resources created at practice endpoints
    clock,               \* the wall clock, ms
    uuidCount,           \* number of uuidv4() values drawn so far
    last,                \* the request handled last: input, environment, outcome
    checked,             \* the browser's last call of validateNHSNumber
    served,              \* the slot list of the latest availability answer
                         \* that has gone out, as the caller holds it
    currentStep,         \* the wizard's step
    selectedSlot,        \* each of the next five: <<>> for null, or <<value>>
    bookedAppointment,
    selectedCareType,
    selectedCondition,
    selectedConditionLabel,
    timers,              \* callbacks set with setTimeout, not yet run
    reasonPreset,        \* value of the form field reasonPreset
    sessionStorage,      \* <<>> or <<the stored patientData>>
    submitDisabled       \* the contact form's submit button is disabled

vars == <<NODE_ENV, GP_CONNECT_JWT_KEY, DB_PASSWORD, JWT_SECRET,
          appointments, practiceHeld, clock, uuidCount, last, checked,
          served, currentStep, selectedSlot, bookedAppointment,
          selectedCareType, selectedCondition, selectedConditionLabel,
          timers, reasonPreset, sessionStorage, submitDisabled>>

\* the state held in the browser
\* the state of the booking wizard in the browser
wizard == <<currentStep, selectedSlot, bookedAppointment, selectedCareType,
            selectedCondition, selectedConditionLabel, timers, reasonPreset,
            sessionStorage, submitDisabled>>

browser == <<checked, wizard>>

config == <<NODE_ENV, GP_CONNECT_JWT_KEY, DB_PASSWORD, JWT_SECRET>>

-----------------------------------------------------------------------------
(* Bounds *)

MaxClock == 1          \* the clock stops advancing here
MaxTick == 1           \* ms that may pass between two reads of the clock
MaxUuid == 7           \* no request starts once this many uuids are drawn
MaxEntries == 1        \* entries in a practice's slot-search response
MaxBookings == 2       \* bookings that reach a practice endpoint in a row

-----------------------------------------------------------------------------
(* Time and text helpers *)

MsPerMinute == 60000
MsPerHour == 3600000
MsPerDay == 86400000

\* Date.prototype.toISOString: the UTC calendar fields of an instant
toISOString(t) ==
    [day  |-> t \div MsPerDay,
     hour |-> (t % MsPerDay) \div MsPerHour,
     min  |-> (t % MsPerHour) \div MsPerMinute,
     sec  |-> (t % MsPerMinute) \div 1000,
     ms   |-> t % 1000]

\* the instant an ISO timestamp denotes
instantOf(iso) ==
    iso.day * MsPerDay + iso.hour * MsPerHour + iso.min * MsPerMinute
        + iso.sec * 1000 + iso.ms

\* the literal '2024-12-02T10:00:00Z'
MockStartISO == [day |-> 0, hour |-> 10, min |-> 0, sec |-> 0, ms |-> 0]
\* the literal '2024-12-02T10:15:00Z'
MockEndISO == [day |-> 0, hour |-> 10, min |-> 15, sec |-> 0, ms |-> 0]

\* the n-th value returned by uuidv4()
uuidv4(n) == "uuid-" \o ToString(n)

RECURSIVE Repeat(_, _)
Repeat(c, n) ==
    IF n = 0 THEN ""
    ELSE IF n % 2 = 0 THEN LET h == Repeat(c, n \div 2) IN h \o h
    ELSE c \o Repeat(c, n - 1)

\* Array.prototype.find / knex .first(): <<>>, or the first of the elements
\* of seq whose indexes are in matching
firstOf(seq, matching) ==
    IF matching = {} THEN <<>>
    ELSE << seq[CHOOSE i \in matching : \A j \in matching : i <= j] >>

null == [null |-> TRUE]

Range(seq) == {seq[i] : i \in 1..Len(seq)}

-----------------------------------------------------------------------------
(* Practice directory *)

\* rows of table gp_practices: the three seeded practices, the third one
\* deactivated since, and one practice registered after seeding
gp_practices ==
    << [id |-> "db-1", ods_code |-> "A12345", name |-> "Example Medical Centre",
        gp_connect_endpoint |-> "https://gp.example.nhs.uk/gpconnect",
        asid |-> "ABC123456789", active |-> TRUE],
       [id |-> "db-2", ods_code |-> "B67890", name |-> "Community Health Practice",
        gp_connect_endpoint |-> "https://community.example.nhs.uk/fhir",
        asid |-> "DEF123456789", active |-> TRUE],
       [id |-> "db-3", ods_code |-> "C11111", name |-> "Riverside Surgery",
        gp_connect_endpoint |-> "https://riverside.example.nhs.uk/fhir",
        asid |-> "GHI123456789", active |-> FALSE],
       [id |-> "db-4", ods_code |-> "D22222", name |-> "Hilltop Practice",
        gp_connect_endpoint |-> "https://hilltop.example.nhs.uk/fhir",
        asid |-> "JKL123456789", active |-> TRUE] >>

mockPractices ==
    << [id |-> "1", ods_code |-> "A12345", name |-> "Example Medical Centre",
        gp_connect_endpoint |-> "https://gp.example.nhs.uk/gpconnect",
        asid |-> "ABC123456789", active |-> TRUE],
       [id |-> "2", ods_code |-> "B67890", name |-> "Community Health Practice",
        gp_connect_endpoint |-> "https://community.example.nhs.uk/fhir",
        asid |-> "DEF123456789", active |-> TRUE],
       [id |-> "3", ods_code |-> "C11111", name |-> "Riverside Surgery",
        gp_connect_endpoint |-> "https://riverside.example.nhs.uk/fhir",
        asid |-> "GHI123456789", active |-> TRUE] >>

\* the practice of the narrow fallback in the catch block
fallbackPractice == mockPractices[1]

demoDirectory == NODE_ENV = "demo" \/ DB_PASSWORD = ""

\* getPracticeByODS: dbThrows says whether the query rejects
getPracticeByODS(odsCode, dbThrows) ==
    IF demoDirectory
    THEN LET hit == firstOf(mockPractices,
                        {i \in 1..Len(mockPractices) :
                            mockPractices[i].ods_code = odsCode})
         IN  [value |-> IF hit = <<>> THEN null ELSE hit[1],
              logs |-> <<>>, queried |-> FALSE]
    ELSE IF dbThrows
    THEN [value |-> IF odsCode = "A12345" THEN fallbackPractice ELSE null,
          logs |-> << [level |-> "error", message |-> "Error fetching GP practice",
                       patient |-> <<>>] >>,
          queried |-> TRUE]
    ELSE LET hit == firstOf(gp_practices,
                        {i \in 1..Len(gp_practices) :
                            /\ gp_practices[i].ods_code = odsCode
                            /\ gp_practices[i].active = TRUE})
         IN  [value |-> IF hit = <<>> THEN null ELSE hit[1],
              logs |-> <<>>, queried |-> TRUE]

-----------------------------------------------------------------------------
(* Clock reads inside one request *)

RECURSIVE SumTo(_, _)
SumTo(f, k) == IF k = 0 THEN 0 ELSE f[k] + SumTo(f, k - 1)

\* elapsed[i] is the time that passes between clock read i and read i+1;
\* at most MaxTick ms pass during one request and the clock stops at MaxClock
Elapsed(gaps) ==
    {e \in [1..gaps -> 0..MaxTick] :
        SumTo(e, gaps) <= MaxTick /\ clock + SumTo(e, gaps) <= MaxClock}

\* the value of the k-th clock read of the request (Date.now(), new Date())
readClock(elapsed, k) == clock + SumTo(elapsed, k - 1)

logEntry(level, message, patient) ==
    [level |-> level, message |-> message, patient |-> patient]

-----------------------------------------------------------------------------
(* Assertion generator *)

NHS_ASID == "200000000359"          \* process.env.NHS_ASID
NHS_ORGANIZATION_CODE == "X26"      \* process.env.NHS_ORGANIZATION_CODE
NHS_USER_ID == "555000111222"       \* process.env.NHS_USER_ID
JwtLifetimeSeconds == 5 * 60

\* jwt.sign(payload, key, RS512) throws on a key that is not a private key
signThrows(key) == key = "malformed-key"

\* generateJWT: first and second are the clock values it reads; the
\* placeholder reads the clock once, the payload of a signed assertion twice
generateJWT(asid, endpoint, first, second) ==
    IF NODE_ENV = "demo" \/ GP_CONNECT_JWT_KEY = ""
    THEN [throws |-> FALSE, reads |-> 1,
          token |-> [kind |-> "placeholder",
                     text |-> "demo-jwt-token-" \o ToString(first)]]
    ELSE IF signThrows(GP_CONNECT_JWT_KEY)
    THEN [throws |-> TRUE, reads |-> 2,
          error |-> "secretOrPrivateKey must be an asymmetric key"]
    ELSE [throws |-> FALSE, reads |-> 2,
          token |-> [kind |-> "signed", algorithm |-> "RS512",
                     iss |-> NHS_ASID, sub |-> NHS_ASID, aud |-> endpoint,
                     exp |-> (first \div 1000) + JwtLifetimeSeconds,
                     iat |-> second \div 1000,
                     reason_for_request |-> "directcare",
                     requested_scope |-> "patient/*.read",
                     requesting_device |-> asid,
                     requesting_organization |-> NHS_ORGANIZATION_CODE,
                     requesting_practitioner |-> NHS_USER_ID]]

-----------------------------------------------------------------------------
(* Availability query *)

MockSlotMinutes == 15

mockSlot(n, start, reference, display) ==
    [id |-> "slot-" \o uuidv4(n),
     start |-> toISOString(start),
     end |-> toISOString(start + MockSlotMinutes * MsPerMinute),
     status |-> "free",
     practitioner |-> [reference |-> reference, display |-> display]]

\* getMockSlots: today is the clock value it reads, u the uuids drawn before
getMockSlots(today, u) ==
    LET tomorrow == today + 24 * MsPerHour
        dayAfter == today + 2 * 24 * MsPerHour
    IN  << mockSlot(u + 1, tomorrow + 9 * MsPerHour,
                    "Practitioner/dr-smith", "Dr. Sarah Smith"),
           mockSlot(u + 2, tomorrow + (21 * MsPerHour) \div 2,
                    "Practitioner/dr-wilson", "Dr. James Wilson"),
           mockSlot(u + 3, tomorrow + 14 * MsPerHour,
                    "Practitioner/dr-johnson", "Dr. Emily Johnson"),
           mockSlot(u + 4, dayAfter + (45 * MsPerHour) \div 4,
                    "Practitioner/dr-brown", "Dr. Michael Brown") >>

MockSlotCount == 4

\* entries a practice endpoint may put in its Bundle
FreeSlotEntry ==
    [resource |-> [resourceType |-> "Slot", id |-> "practice-slot-1",
                   start |-> toISOString(MsPerDay + 9 * MsPerHour),
                   end |-> toISOString(MsPerDay + 9 * MsPerHour + 15 * MsPerMinute),
                   status |-> "free",
                   schedule |-> [reference |-> "Schedule/14"]]]
BusySlotEntry ==
    [resource |-> [resourceType |-> "Slot", id |-> "practice-slot-2",
                   start |-> toISOString(MsPerDay + 10 * MsPerHour),
                   end |-> toISOString(MsPerDay + 10 * MsPerHour + 15 * MsPerMinute),
                   status |-> "busy"]]
ScheduleEntry ==
    [resource |-> [resourceType |-> "Schedule", id |-> "14"]]
BrokenEntry ==
    [fullUrl |-> "urn:uuid:broken"]

EntryKinds == {FreeSlotEntry, BusySlotEntry, ScheduleEntry, BrokenEntry}

EntryLists == UNION {[1..n -> EntryKinds] : n \in 0..MaxEntries}

\* what httpClient.get(.../Slot) may do: reject, or resolve with a response
SlotResponses ==
    { [status |-> "error"], [status |-> "empty-body"],
      [status |-> "ok", data |-> [resourceType |-> "Bundle"]] }
    \cup { [status |-> "ok", data |-> [resourceType |-> "Bundle", entry |-> l]] :
            l \in EntryLists }

\* filter(...).map(...) || [] over response.data.entry
transformThrows(response) ==
    \/ "data" \notin DOMAIN response
    \/ /\ "entry" \in DOMAIN response.data
       /\ \E i \in 1..Len(response.data.entry) :
            "resource" \notin DOMAIN response.data.entry[i]

toAppointmentSlot(resource) ==
    [id |-> resource.id,
     start |-> resource.start,
     end |-> resource.end,
     status |-> resource.status,
     practitioner |->
        [reference |-> IF "schedule" \in DOMAIN resource
                       THEN resource.schedule.reference ELSE "Unknown",
         display |-> "GP Practitioner"]]

transformSlots(response) ==
    IF "entry" \notin DOMAIN response.data THEN <<>>
    ELSE LET kept == SelectSeq(response.data.entry,
                        LAMBDA e : e.resource.resourceType = "Slot")
         IN  [i \in 1..Len(kept) |-> toAppointmentSlot(kept[i].resource)]

\* the demo test, had it looked at the environment only
demoSlots_envOnly == NODE_ENV = "demo"

demoSlots == NODE_ENV = "demo" \/ GP_CONNECT_JWT_KEY = ""

\* the try block of searchAvailableSlots
\* env: dbThrows, slotResponse, elapsed
searchTry(odsCode, fromDate, toDate, duration, env, u) ==
    LET lookup == getPracticeByODS(odsCode, env.dbThrows)
        practice == lookup.value
        jwt == generateJWT(practice.asid, practice.gp_connect_endpoint,
                           readClock(env.elapsed, 1), readClock(env.elapsed, 2))
        base == [throws |-> FALSE, value |-> <<>>, error |-> "",
                 events |-> <<"getPracticeByODS">>, logs |-> lookup.logs,
                 practice |-> practice,
                 uuids |-> u, reads |-> 0, sent |-> <<>>]
    IN  IF practice = null
        THEN [base EXCEPT !.throws = TRUE,
                          !.error = "GP practice not found: " \o odsCode]
        ELSE IF demoSlots
        THEN [base EXCEPT !.value = getMockSlots(readClock(env.elapsed, 1), u),
                          !.events = @ \o <<"getMockSlots">>,
                          !.logs = @ \o <<logEntry("info",
                                "Returning mock slots for demo mode", <<>>)>>,
                          !.uuids = u + MockSlotCount, !.reads = 1]
        ELSE IF jwt.throws
        THEN [base EXCEPT !.throws = TRUE, !.error = jwt.error,
                          !.events = @ \o <<"generateJWT">>,
                          !.reads = jwt.reads]
        ELSE LET request == [method |-> "GET",
                             url |-> practice.gp_connect_endpoint \o "/Slot",
                             authorization |-> jwt.token,
                             traceId |-> uuidv4(u + 1),
                             from |-> NHS_ASID, to |-> practice.asid,
                             params |-> [start |-> "ge" \o fromDate,
                                         end |-> "le" \o toDate,
                                         status |-> "free"]]
                 called == [base EXCEPT !.events = @ \o <<"generateJWT", "GET /Slot">>,
                                        !.uuids = u + 1, !.reads = jwt.reads,
                                        !.sent = <<request>>]
             IN  IF env.slotResponse.status = "error"
                 THEN [called EXCEPT !.throws = TRUE, !.error = "Network Error"]
                 ELSE IF transformThrows(env.slotResponse)
                 THEN [called EXCEPT !.throws = TRUE,
                          !.error = "Cannot read properties of undefined"]
                 ELSE [called EXCEPT !.value = transformSlots(env.slotResponse),
                          !.logs = @ \o <<logEntry("info",
                                "Available slots found", <<>>)>>]

\* the catch block, had it rethrown as the one of bookAppointment does
searchCatch_rethrows(odsCode, env, tried) == tried

\* the catch block of searchAvailableSlots, entered when the try block threw;
\* tried is the outcome of the try block
searchCatch(odsCode, env, tried) ==
    IF ~tried.throws THEN tried
    ELSE [tried EXCEPT
              !.throws = FALSE, !.error = "",
              !.value = getMockSlots(readClock(env.elapsed, tried.reads + 1),
                                     tried.uuids),
              !.events = @ \o <<"getMockSlots">>,
              !.logs = @ \o <<logEntry("error",
                            "Error searching available slots", <<>>),
                          logEntry("info",
                            "Returning mock slots due to error", <<>>)>>,
              !.uuids = @ + MockSlotCount,
              !.reads = @ + 1]

\* searchAvailableSlots(odsCode, fromDate, toDate, duration); u uuids drawn before
searchAvailableSlots(odsCode, fromDate, toDate, duration, env, u) ==
    searchCatch(odsCode, env,
                searchTry(odsCode, fromDate, toDate, duration, env, u))


-----------------------------------------------------------------------------
(* Request tracing and audit *)

demoAudit == NODE_ENV = "demo" \/ DB_PASSWORD = ""

\* auditAction's res.send wrapper followed by createAuditLog: the audit
\* records written for one response, and where each one ended up
auditAction(action, resourceType, userId, userRole, req, traceId, status) ==
    LET entry == [user_id |-> IF userId = "" THEN "anonymous" ELSE userId,
                  user_role |-> userRole,
                  action |-> action,
                  resource_type |-> resourceType,
                  patient_nhs_number |->
                      IF "patientNHSNumber" \in DOMAIN req
                      THEN <<req.patientNHSNumber>> ELSE <<>>,
                  practice_ods_code |->
                      IF "gpPracticeODSCode" \in DOMAIN req
                      THEN <<req.gpPracticeODSCode>> ELSE <<>>,
                  trace_id |-> traceId,
                  outcome |-> IF status >= 400 THEN "failure" ELSE "success"]
    IN  << [entry |-> entry,
            sink |-> IF demoAudit THEN "log" ELSE "access_audit"] >>

\* the log lines createAuditLog writes for those records
auditLogs(audit) ==
    [i \in 1..Len(audit) |->
        IF audit[i].sink = "log"
        THEN logEntry("info", "Audit log (demo mode)",
                      audit[i].entry.patient_nhs_number)
        ELSE logEntry("debug", "access_audit insert", <<>>)]

-----------------------------------------------------------------------------
(* Input validation (zod schemas) *)

MinOdsLen == 3
MaxOdsLen == 10
MinDuration == 10
MaxDuration == 60
DefaultDuration == 15
MinReasonLen == 10
MaxReasonLen == 500

\* Date.parse on the date strings requests carry: <<instant>>, or <<>> for NaN
dateParse(str) ==
    IF str = "2024-12-01" THEN << -MsPerDay >>
    ELSE IF str = "2024-12-07" THEN << 5 * MsPerDay >>
    ELSE <<>>

\* Number(str) on the duration strings requests carry: <<n>>, or <<>> for NaN
numberOf(str) ==
    IF str = "9" THEN <<9>>
    ELSE IF str = "10" THEN <<10>>
    ELSE IF str = "15" THEN <<15>>
    ELSE IF str = "30" THEN <<30>>
    ELSE IF str = "60" THEN <<60>>
    ELSE IF str = "61" THEN <<61>>
    ELSE IF str = "" THEN <<0>>
    ELSE <<>>

odsCodeOk(query) ==
    /\ "gpPracticeODSCode" \in DOMAIN query
    /\ Len(query.gpPracticeODSCode) >= MinOdsLen
    /\ Len(query.gpPracticeODSCode) <= MaxOdsLen

\* the range check, had it lost its lower limit
durationInRange_noMin(n) == n <= 60

durationInRange(n) == n >= MinDuration /\ n <= MaxDuration

\* availabilitySearchSchema.parse(req.query)
availabilitySearchSchema(query) ==
    LET coerced == IF "duration" \in DOMAIN query
                   THEN numberOf(query.duration) ELSE <<DefaultDuration>>
        ok == /\ odsCodeOk(query)
              /\ "fromDate" \in DOMAIN query /\ dateParse(query.fromDate) # <<>>
              /\ "toDate" \in DOMAIN query /\ dateParse(query.toDate) # <<>>
              /\ coerced # <<>> /\ durationInRange(coerced[1])
    IN  IF ok
        THEN [ok |-> TRUE,
              data |-> [gpPracticeODSCode |-> query.gpPracticeODSCode,
                        fromDate |-> query.fromDate,
                        toDate |-> query.toDate,
                        duration |-> coerced[1]]]
        ELSE [ok |-> FALSE, error |-> "ZodError"]

-----------------------------------------------------------------------------
(* Availability requests *)

OdsCodes == {"A12345", "B67890", "C11111", "D22222", "Z99999", "AB", "ABCDEFGHIJK"}

BaseQuery ==
    [gpPracticeODSCode |-> "A12345", fromDate |-> "2024-12-01",
     toDate |-> "2024-12-07", duration |-> "30"]

AvailabilityQueries ==
    {[BaseQuery EXCEPT !.gpPracticeODSCode = c] : c \in OdsCodes}
    \cup {[BaseQuery EXCEPT !.duration = d] : d \in {"9", "10", "60", "61", "soon"}}
    \cup {[BaseQuery EXCEPT !.fromDate = "tomorrow"],
          [BaseQuery EXCEPT !.toDate = "next week"],
          [gpPracticeODSCode |-> "A12345", fromDate |-> "2024-12-01",
           toDate |-> "2024-12-07"],
          [gpPracticeODSCode |-> "Z99999", fromDate |-> "2024-12-01",
           toDate |-> "2024-12-07"],
          [fromDate |-> "2024-12-01", toDate |-> "2024-12-07"]}

NoResponse == [status |-> "not-called"]

NoService ==
    [called |-> FALSE, throws |-> FALSE, value |-> <<>>, error |-> "",
     events |-> <<>>, practice |-> null, sent |-> <<>>]

serviceOutcome(svc) ==
    [called |-> TRUE, throws |-> svc.throws, value |-> svc.value,
     error |-> svc.error, events |-> svc.events, practice |-> svc.practice,
     sent |-> svc.sent]

-----------------------------------------------------------------------------
(* GET /api/appointments/availability *)

\* the catch block of the handler: 400 with the message and the trace id
availabilityFailed(traceId, message, outcome, logs, uuids, reads) ==
    [status |-> 400, traceId |-> traceId,
     body |-> [success |-> FALSE, error |-> message, traceId |-> traceId],
     svc |-> outcome,
     logs |-> <<logEntry("info", "API Request", <<>>)>> \o logs
              \o <<logEntry("error", "Availability search failed", <<>>)>>,
     uuids |-> uuids, reads |-> reads]

\* the handler once the query is parsed: svc is what searchAvailableSlots did
availabilityAnswer(traceId, searchCriteria, svc) ==
    IF svc.throws
    THEN availabilityFailed(traceId, svc.error, serviceOutcome(svc), svc.logs,
                            svc.uuids, svc.reads)
    ELSE [status |-> 200, traceId |-> traceId,
          body |-> [success |-> TRUE,
                    data |-> [slots |-> svc.value,
                              totalSlots |-> Len(svc.value),
                              searchCriteria |-> searchCriteria]],
          svc |-> serviceOutcome(svc),
          logs |-> <<logEntry("info", "API Request", <<>>)>> \o svc.logs
                   \o <<logEntry("info", "Appointment availability search", <<>>)>>,
          uuids |-> svc.uuids, reads |-> svc.reads]

\* the handler's parse step: parsed is what the schema returned
availabilityParsed(traceId, parsed, env, u) ==
    IF ~parsed.ok
    THEN availabilityFailed(traceId, parsed.error, NoService, <<>>, u, 0)
    ELSE availabilityAnswer(traceId, parsed.data,
             searchAvailableSlots(parsed.data.gpPracticeODSCode,
                 parsed.data.fromDate, parsed.data.toDate,
                 parsed.data.duration, env, u))

\* the middleware chain and the handler, for one request
availabilityResponse(query, env, u) ==
    availabilityParsed(uuidv4(u + 1), availabilitySearchSchema(query), env, u + 1)


-----------------------------------------------------------------------------
(* Patient identifiers: sequences of characters *)

DigitChars == <<"0", "1", "2", "3", "4", "5", "6", "7", "8", "9">>

isDigit(c) == \E d \in 1..10 : DigitChars[d] = c

\* Number(c) for a digit character
digitValue(c) == (CHOOSE d \in 1..10 : DigitChars[d] = c) - 1

NhsNumberLength == 10

\* /^\d{10}$/.test(str)
tenDigits(str) ==
    Len(str) = NhsNumberLength /\ \A i \in 1..Len(str) : isDigit(str[i])

\* the weighted sum over the first nine digits
RECURSIVE weightedSum(_, _)
weightedSum(str, i) ==
    IF i = 0 THEN 0
    ELSE digitValue(str[i]) * (11 - i) + weightedSum(str, i - 1)

\* the validator, had it not mapped a check digit of 11 to 0
validateNHSNumber_elevenUnmapped(nhsNumber) ==
    IF ~tenDigits(nhsNumber) THEN FALSE
    ELSE LET checkDigit == 11 - (weightedSum(nhsNumber, 9) % 11)
             expected == IF checkDigit = 10 THEN 0 ELSE checkDigit
         IN  expected = digitValue(nhsNumber[10])

\* validateNHSNumber of the booking wizard
validateNHSNumber(nhsNumber) ==
    IF ~tenDigits(nhsNumber) THEN FALSE
    ELSE LET checkDigit == 11 - (weightedSum(nhsNumber, 9) % 11)
             expected == IF checkDigit = 11 THEN 0
                         ELSE IF checkDigit = 10 THEN 0 ELSE checkDigit
         IN  expected = digitValue(nhsNumber[10])

\* nhsNumber.substring(0, 3) + '****'
maskNHSNumber(nhsNumber) ==
    SubSeq(nhsNumber, 1, IF Len(nhsNumber) < 3 THEN Len(nhsNumber) ELSE 3)
        \o <<"*", "*", "*", "*">>

-----------------------------------------------------------------------------
(* Booking orchestrator *)

\* sendPracticeNotifications: a stub that only logs
sendPracticeNotifications(practice, appointment) ==
    <<logEntry("info", "Practice notifications sent", <<>>)>>

notifications(n) ==
    << [method |-> "email", success |-> TRUE,
        messageId |-> "email-" \o uuidv4(n)],
       [method |-> "mesh", success |-> TRUE] >>

participantOf(bookingRequest) ==
    << [actor |-> [system |-> "https://fhir.nhs.uk/Id/nhs-number",
                   value |-> bookingRequest.patientNHSNumber],
        status |-> "accepted"] >>

\* the mock response, had its duration been fixed like its start and end
getMockBookingResponse_fixedDuration(bookingRequest, u) ==
    [appointment |->
        [resourceType |-> "Appointment",
         id |-> uuidv4(u + 1),
         status |-> "booked",
         start |-> MockStartISO,
         end |-> MockEndISO,
         minutesDuration |-> 15,
         participant |-> participantOf(bookingRequest)],
     notifications |-> notifications(u + 2)]

\* getMockBookingResponse: u uuids drawn before
getMockBookingResponse(bookingRequest, u) ==
    [appointment |->
        [resourceType |-> "Appointment",
         id |-> uuidv4(u + 1),
         status |-> "booked",
         start |-> MockStartISO,
         end |-> MockEndISO,
         minutesDuration |-> bookingRequest.duration,
         participant |-> participantOf(bookingRequest)],
     notifications |-> notifications(u + 2)]

MockBookingUuids == 2

\* the FHIR Appointment resource built by bookAppointment;
\* startRead and endRead are the two clock values it reads
appointmentResource(bookingRequest, startRead, endRead) ==
    [resourceType |-> "Appointment",
     status |-> "booked",
     serviceType |-> [system |-> "http://hl7.org/fhir/service-type",
                      code |-> "gp", display |-> "General Practice"],
     reasonCode |-> bookingRequest.reasonForAppointment,
     start |-> toISOString(startRead),
     end |-> toISOString(endRead + bookingRequest.duration * MsPerMinute),
     minutesDuration |-> bookingRequest.duration,
     participant |-> participantOf(bookingRequest)]

\* the row, had its key been derived from the patient and the practice
appointmentRow_keyedByPatient(appointmentId, bookingRequest, startRead, endRead) ==
    [appointment_id |-> bookingRequest.gpPracticeODSCode,
     patient_nhs_number |-> bookingRequest.patientNHSNumber,
     practice_ods_code |-> bookingRequest.gpPracticeODSCode,
     appointment_type |-> bookingRequest.appointmentType,
     appointment_start |-> startRead,
     appointment_end |-> endRead + bookingRequest.duration * MsPerMinute,
     reason_for_appointment |-> bookingRequest.reasonForAppointment,
     urgency |-> bookingRequest.urgency,
     duration_minutes |-> bookingRequest.duration,
     booked_by |-> bookingRequest.bookedBy,
     status |-> "booked"]

\* the row bookAppointment inserts into table appointments
appointmentRow(appointmentId, bookingRequest, startRead, endRead) ==
    [appointment_id |-> appointmentId,
     patient_nhs_number |-> bookingRequest.patientNHSNumber,
     practice_ods_code |-> bookingRequest.gpPracticeODSCode,
     appointment_type |-> bookingRequest.appointmentType,
     appointment_start |-> startRead,
     appointment_end |-> endRead + bookingRequest.duration * MsPerMinute,
     reason_for_appointment |-> bookingRequest.reasonForAppointment,
     urgency |-> bookingRequest.urgency,
     duration_minutes |-> bookingRequest.duration,
     booked_by |-> bookingRequest.bookedBy,
     status |-> "booked"]

\* the try block of bookAppointment
\* env: dbThrows, postOutcome, insertThrows, elapsed
bookTry(bookingRequest, env, u) ==
    LET lookup == getPracticeByODS(bookingRequest.gpPracticeODSCode, env.dbThrows)
        practice == lookup.value
        jwt == generateJWT(practice.asid, practice.gp_connect_endpoint,
                           readClock(env.elapsed, 1), readClock(env.elapsed, 2))
        appointmentId == uuidv4(u + 1)
        resource == appointmentResource(bookingRequest,
                        readClock(env.elapsed, jwt.reads + 1),
                        readClock(env.elapsed, jwt.reads + 2))
        request == [method |-> "POST",
                    url |-> practice.gp_connect_endpoint \o "/Appointment",
                    authorization |-> jwt.token,
                    traceId |-> uuidv4(u + 2),
                    from |-> NHS_ASID, to |-> practice.asid,
                    body |-> resource]
        row == appointmentRow(appointmentId, bookingRequest,
                   readClock(env.elapsed, jwt.reads + 3),
                   readClock(env.elapsed, jwt.reads + 4))
        base == [throws |-> FALSE, value |-> <<>>, error |-> "",
                 events |-> <<"getPracticeByODS">>, logs |-> lookup.logs,
                 practice |-> practice,
                 uuids |-> u, reads |-> 0, sent |-> <<>>,
                 created |-> <<>>, inserted |-> <<>>]
        posted == [base EXCEPT !.events = @ \o <<"generateJWT", "POST /Appointment">>,
                               !.uuids = u + 2, !.reads = jwt.reads + 2,
                               !.sent = <<request>>]
        created == [posted EXCEPT !.created = <<resource>>]
    IN  IF practice = null
        THEN [base EXCEPT !.throws = TRUE,
                  !.error = "GP practice not found: "
                                \o bookingRequest.gpPracticeODSCode]
        ELSE IF jwt.throws
        THEN [base EXCEPT !.throws = TRUE, !.error = jwt.error,
                          !.events = @ \o <<"generateJWT">>,
                          !.reads = jwt.reads]
        ELSE IF env.postOutcome = "error"
        THEN [posted EXCEPT !.throws = TRUE, !.error = "Network Error"]
        ELSE IF env.insertThrows
        THEN [created EXCEPT !.throws = TRUE, !.error = "insert failed",
                             !.events = @ \o <<"insert appointments">>,
                             !.reads = jwt.reads + 4]
        ELSE [created EXCEPT
                  !.value = [appointment |-> resource,
                             notifications |-> notifications(u + 3)],
                  !.events = @ \o <<"insert appointments",
                                    "sendPracticeNotifications">>,
                  !.logs = @ \o sendPracticeNotifications(practice, resource)
                             \o <<logEntry("info", "Appointment booked successfully",
                                    <<maskNHSNumber(bookingRequest.patientNHSNumber)>>)>>,
                  !.uuids = u + 3, !.reads = jwt.reads + 4,
                  !.inserted = <<row>>]

\* the mock answer, had it been given in every environment
masksFailure_always == TRUE

\* whether the catch block of bookAppointment answers with the mock response
masksFailure == NODE_ENV = "development"

\* the catch block, had it stored a local record for the mock answer
bookCatch_storesMock(bookingRequest, tried) ==
    IF ~tried.throws THEN tried
    ELSE IF masksFailure
    THEN [tried EXCEPT
              !.throws = FALSE, !.error = "",
              !.value = getMockBookingResponse(bookingRequest, tried.uuids),
              !.events = @ \o <<"getMockBookingResponse">>,
              !.logs = @ \o <<logEntry("error", "Error booking appointment",
                                <<bookingRequest.patientNHSNumber>>)>>,
              !.uuids = @ + MockBookingUuids,
              !.inserted = <<appointmentRow(uuidv4(tried.uuids + 1),
                                            bookingRequest, 0, 0)>>]
    ELSE [tried EXCEPT
              !.logs = @ \o <<logEntry("error", "Error booking appointment",
                                <<bookingRequest.patientNHSNumber>>)>>]

\* the catch block, had it written the local record again after a failed
\* insert, before answering with the mock
bookCatch_retriesInsert(bookingRequest, tried) ==
    IF ~tried.throws THEN tried
    ELSE IF masksFailure
    THEN [tried EXCEPT
              !.throws = FALSE, !.error = "",
              !.value = getMockBookingResponse(bookingRequest, tried.uuids),
              !.events = @ \o <<"getMockBookingResponse">>,
              !.logs = @ \o <<logEntry("error", "Error booking appointment",
                                <<bookingRequest.patientNHSNumber>>)>>,
              !.uuids = @ + MockBookingUuids,
              !.inserted = IF tried.created # <<>>
                           THEN <<appointmentRow(uuidv4(tried.uuids),
                                                 bookingRequest, 0, 0)>>
                           ELSE <<>>]
    ELSE [tried EXCEPT
              !.logs = @ \o <<logEntry("error", "Error booking appointment",
                                <<bookingRequest.patientNHSNumber>>)>>]

\* the catch block of bookAppointment, entered when the try block threw;
\* tried is the outcome of the try block
bookCatch(bookingRequest, tried) ==
    IF ~tried.throws THEN tried
    ELSE IF masksFailure
    THEN [tried EXCEPT
              !.throws = FALSE, !.error = "",
              !.value = getMockBookingResponse(bookingRequest, tried.uuids),
              !.events = @ \o <<"getMockBookingResponse">>,
              !.logs = @ \o <<logEntry("error", "Error booking appointment",
                                <<bookingRequest.patientNHSNumber>>)>>,
              !.uuids = @ + MockBookingUuids]
    ELSE [tried EXCEPT
              !.logs = @ \o <<logEntry("error", "Error booking appointment",
                                <<bookingRequest.patientNHSNumber>>)>>]

\* bookAppointment(bookingRequest); u uuids drawn before
bookAppointment(bookingRequest, env, u) ==
    bookCatch(bookingRequest, bookTry(bookingRequest, env, u))


-----------------------------------------------------------------------------
(* POST /api/appointments/book *)

AppointmentTypes == {"routine", "urgent", "emergency", "follow-up"}
UrgencyLevels == {"routine", "urgent", "emergency"}

\* z.string().email() on the addresses requests carry
isEmail(str) == str = "patient@example.com"

\* appointmentBookingSchema.parse(req.body)
appointmentBookingSchema(body) ==
    LET ok == /\ "patientNHSNumber" \in DOMAIN body
              /\ tenDigits(body.patientNHSNumber)
              /\ odsCodeOk(body)
              /\ "appointmentType" \in DOMAIN body
              /\ body.appointmentType \in AppointmentTypes
              /\ "reasonForAppointment" \in DOMAIN body
              /\ Len(body.reasonForAppointment) >= MinReasonLen
              /\ Len(body.reasonForAppointment) <= MaxReasonLen
              /\ "urgency" \in DOMAIN body
              /\ body.urgency \in UrgencyLevels
              /\ ("duration" \in DOMAIN body => durationInRange(body.duration))
              /\ "bookedBy" \in DOMAIN body
              /\ "contactPreferences" \in DOMAIN body
              /\ ("email" \in DOMAIN body.contactPreferences
                    => isEmail(body.contactPreferences.email))
    IN  IF ok
        THEN [ok |-> TRUE,
              data |-> [patientNHSNumber |-> body.patientNHSNumber,
                        gpPracticeODSCode |-> body.gpPracticeODSCode,
                        appointmentType |-> body.appointmentType,
                        reasonForAppointment |-> body.reasonForAppointment,
                        urgency |-> body.urgency,
                        duration |-> IF "duration" \in DOMAIN body
                                     THEN body.duration ELSE DefaultDuration,
                        bookedBy |-> body.bookedBy,
                        contactPreferences |->
                            [sms |-> IF "sms" \in DOMAIN body.contactPreferences
                                     THEN body.contactPreferences.sms ELSE FALSE]]]
        ELSE [ok |-> FALSE, error |-> "ZodError"]

NoToken == [kind |-> "none"]

\* jwt.verify(token, jwtSecret) throws unless the token was signed with the
\* secret and has not expired
verifyThrows(token) == token.signedWith # JWT_SECRET \/ token.expired

\* authenticateToken: the status it answers with, or 0 when it calls next()
authenticateToken(token) ==
    IF token.kind = "none" THEN 401
    ELSE IF JWT_SECRET = "" THEN 403
    ELSE IF verifyThrows(token) THEN 403
    ELSE 0

BookingRoles == {"patient", "practitioner", "admin"}

\* requireRole, had it let every authenticated user through
requireRole_anyRole(roles, user) ==
    IF user = <<>> THEN 401
    ELSE 0

\* requireRole(roles): user is <<>> or <<req.user>>
requireRole(roles, user) ==
    IF user = <<>> THEN 401
    ELSE IF user[1].role \notin roles THEN 403
    ELSE 0

authError(status) ==
    IF status = 401 THEN "Access token required" ELSE "Invalid or expired token"

roleError(status) ==
    IF status = 401 THEN "Authentication required" ELSE "Insufficient permissions"

\* a middleware answers itself and the handler is never entered
bookingRejected(traceId, status, message, u) ==
    [status |-> status, traceId |-> traceId,
     body |-> [success |-> FALSE, error |-> message],
     svc |-> NoService, audited |-> FALSE,
     userId |-> "", userRole |-> "",
     logs |-> <<logEntry("info", "API Request", <<>>),
                logEntry("warn", message, <<>>)>>,
     uuids |-> u, reads |-> 0, created |-> <<>>, inserted |-> <<>>]

\* the catch block of the handler: 400 with the message and the trace id
bookingFailed(token, traceId, message, outcome, logs, uuids, reads, created) ==
    [status |-> 400, traceId |-> traceId,
     body |-> [success |-> FALSE, error |-> message, traceId |-> traceId],
     svc |-> outcome, audited |-> TRUE,
     userId |-> token.sub, userRole |-> token.role,
     logs |-> <<logEntry("info", "API Request", <<>>)>> \o logs
              \o <<logEntry("error", "Appointment booking failed", <<>>)>>,
     uuids |-> uuids, reads |-> reads,
     created |-> created, inserted |-> <<>>]

\* the handler once the body is parsed: svc is what bookAppointment did
bookingAnswer(token, traceId, bookingData, svc) ==
    IF svc.throws
    THEN bookingFailed(token, traceId, svc.error, serviceOutcome(svc), svc.logs,
                       svc.uuids, svc.reads, svc.created)
    ELSE [status |-> 201, traceId |-> traceId,
          body |-> [success |-> TRUE, data |-> svc.value],
          svc |-> serviceOutcome(svc), audited |-> TRUE,
          userId |-> token.sub, userRole |-> token.role,
          logs |-> <<logEntry("info", "API Request", <<>>)>> \o svc.logs
                   \o <<logEntry("info", "Appointment booked successfully",
                          <<maskNHSNumber(bookingData.patientNHSNumber)>>)>>,
          uuids |-> svc.uuids, reads |-> svc.reads,
          created |-> svc.created, inserted |-> svc.inserted]

\* the handler's parse step: parsed is what the schema returned
bookingParsed(token, traceId, parsed, env, u) ==
    IF ~parsed.ok
    THEN bookingFailed(token, traceId, parsed.error, NoService, <<>>, u, 0, <<>>)
    ELSE bookingAnswer(token, traceId, parsed.data,
                       bookAppointment(parsed.data, env, u))

\* authenticateToken, then requireRole, then the handler
bookingChain(token, traceId, authStatus, body, env, u) ==
    IF authStatus # 0
    THEN bookingRejected(traceId, authStatus, authError(authStatus), u)
    ELSE IF requireRole(BookingRoles, <<token>>) # 0
    THEN bookingRejected(traceId, requireRole(BookingRoles, <<token>>),
                         roleError(requireRole(BookingRoles, <<token>>)), u)
    ELSE bookingParsed(token, traceId, appointmentBookingSchema(body), env, u)

\* the middleware chain and the handler, for one request
bookingResponse(token, body, env, u) ==
    bookingChain(token, uuidv4(u + 1), authenticateToken(token), body, env, u + 1)

-----------------------------------------------------------------------------
(* DELETE /api/appointments/:appointmentId *)

\* db('appointments').where('appointment_id', appointmentId).update({...}):
\* the table afterwards. update holds the keys whose value is not undefined
cancelledRow(row, update) ==
    [f \in DOMAIN row \cup DOMAIN update |->
        IF f \in DOMAIN update THEN update[f] ELSE row[f]]

\* the same statement, had it carried no where clause
updateWhere_everyRow(rows, appointmentId, update) ==
    [i \in 1..Len(rows) |-> cancelledRow(rows[i], update)]

updateWhere(rows, appointmentId, update) ==
    [i \in 1..Len(rows) |->
        IF rows[i].appointment_id = appointmentId
        THEN cancelledRow(rows[i], update)
        ELSE rows[i]]

\* the object handed to update(): cancellationReason is undefined when the
\* body has none, and the query builder leaves an undefined key out
cancelUpdate(body, now) ==
    IF "cancellationReason" \in DOMAIN body
    THEN [status |-> "cancelled",
          cancellation_reason |-> body.cancellationReason,
          cancelled_at |-> now]
    ELSE [status |-> "cancelled", cancelled_at |-> now]

\* a middleware answers itself and the handler is never entered
cancelRejected(traceId, status, message, rows, u) ==
    [status |-> status, traceId |-> traceId,
     body |-> [success |-> FALSE, error |-> message],
     svc |-> NoService, audited |-> FALSE,
     userId |-> "", userRole |-> "",
     logs |-> <<logEntry("info", "API Request", <<>>),
                logEntry("warn", message, <<>>)>>,
     uuids |-> u, reads |-> 0, rows |-> rows, statements |-> <<>>]

\* the handler: the update, then 200; or its catch block, 400
\* env: dbThrows, elapsed
cancelHandler(token, traceId, appointmentId, body, rows, env, u) ==
    IF env.dbThrows
    THEN [status |-> 400, traceId |-> traceId,
          body |-> [success |-> FALSE, error |-> "connection refused",
                    traceId |-> traceId],
          svc |-> NoService, audited |-> TRUE,
          userId |-> token.sub, userRole |-> token.role,
          logs |-> <<logEntry("info", "API Request", <<>>),
                     logEntry("error", "Appointment cancellation failed", <<>>)>>,
          uuids |-> u, reads |-> 1, rows |-> rows,
          statements |-> <<"update appointments">>]
    ELSE [status |-> 200, traceId |-> traceId,
          body |-> [success |-> TRUE,
                    message |-> "Appointment cancelled successfully"],
          svc |-> NoService, audited |-> TRUE,
          userId |-> token.sub, userRole |-> token.role,
          logs |-> <<logEntry("info", "API Request", <<>>),
                     logEntry("info", "Appointment cancelled", <<>>)>>,
          uuids |-> u, reads |-> 1,
          rows |-> updateWhere(rows, appointmentId,
                       cancelUpdate(body, readClock(env.elapsed, 1))),
          statements |-> <<"update appointments">>]

\* authenticateToken, then requireRole, then the handler
cancelChain(token, traceId, authStatus, appointmentId, body, rows, env, u) ==
    IF authStatus # 0
    THEN cancelRejected(traceId, authStatus, authError(authStatus), rows, u)
    ELSE IF requireRole(BookingRoles, <<token>>) # 0
    THEN cancelRejected(traceId, requireRole(BookingRoles, <<token>>),
                        roleError(requireRole(BookingRoles, <<token>>)), rows, u)
    ELSE cancelHandler(token, traceId, appointmentId, body, rows, env, u)

\* the middleware chain and the handler, for one request
cancelResponse(token, appointmentId, body, rows, env, u) ==
    cancelChain(token, uuidv4(u + 1), authenticateToken(token), appointmentId,
                body, rows, env, u + 1)

-----------------------------------------------------------------------------
(* Booking requests *)

ValidNhsNumber == <<"9", "8", "7", "6", "5", "4", "3", "2", "1", "0">>
WrongCheckDigit == <<"9", "8", "7", "6", "5", "4", "3", "2", "1", "1">>
NineDigits == <<"9", "8", "7", "6", "5", "4", "3", "2", "1">>
ElevenDigits == <<"9", "8", "7", "6", "5", "4", "3", "2", "1", "0", "0">>
NotAllDigits == <<"9", "8", "7", "6", "5", "4", "3", "2", "A", "0">>

BaseBody ==
    [patientNHSNumber |-> ValidNhsNumber,
     gpPracticeODSCode |-> "A12345",
     appointmentType |-> "routine",
     reasonForAppointment |-> "Annual health check",
     urgency |-> "routine",
     duration |-> 30,
     bookedBy |-> "user-7",
     contactPreferences |-> [email |-> "patient@example.com", sms |-> TRUE]]

\* a body without one of BaseBody's fields
without(body, field) ==
    [f \in DOMAIN body \ {field} |-> body[f]]

BookingBodies ==
    {[BaseBody EXCEPT !.patientNHSNumber = n] :
        n \in {ValidNhsNumber, WrongCheckDigit, NineDigits, ElevenDigits,
               NotAllDigits}}
    \cup {[BaseBody EXCEPT !.gpPracticeODSCode = c] : c \in OdsCodes}
    \cup {[BaseBody EXCEPT !.duration = d] : d \in {9, 10, 15, 60, 61}}
    \cup {[BaseBody EXCEPT !.reasonForAppointment = Repeat("x", n)] :
            n \in {MinReasonLen - 1, MinReasonLen, MaxReasonLen, MaxReasonLen + 1}}
    \cup {[BaseBody EXCEPT !.appointmentType = "walk-in"],
          [BaseBody EXCEPT !.urgency = "low"],
          [BaseBody EXCEPT !.contactPreferences = [email |-> "nobody"]],
          [BaseBody EXCEPT !.contactPreferences = [phone |-> "07700900000"]],
          without(BaseBody, "duration"),
          without(BaseBody, "bookedBy"),
          [without(BaseBody, "duration") EXCEPT !.gpPracticeODSCode = "Z99999"],
          [BaseBody EXCEPT !.patientNHSNumber = WrongCheckDigit,
                           !.gpPracticeODSCode = "Z99999"]}

bearer(role, signedWith, expired) ==
    [kind |-> "bearer", sub |-> "user-7", role |-> role,
     signedWith |-> signedWith, expired |-> expired]

PatientToken == bearer("patient", "jwt-secret", FALSE)

BookingRequests ==
    {[token |-> PatientToken, body |-> b] : b \in BookingBodies}
    \cup {[token |-> t, body |-> b] :
            t \in {NoToken,
                   bearer("patient", "forged-secret", FALSE),
                   bearer("patient", "jwt-secret", TRUE),
                   bearer("practitioner", "jwt-secret", FALSE),
                   bearer("admin", "jwt-secret", FALSE),
                   bearer("receptionist", "jwt-secret", FALSE)},
            b \in {BaseBody, [BaseBody EXCEPT !.duration = 61]}}


-----------------------------------------------------------------------------
(* The system *)

\* validateNHSNumber has not been called
NotChecked == [called |-> FALSE]

Idle ==
    [op |-> "none", token |-> NoToken, input |-> <<>>,
     env |-> [dbThrows |-> FALSE, slotResponse |-> NoResponse,
              postOutcome |-> "not-called", insertThrows |-> FALSE],
     traceId |-> "", status |-> 0, body |-> <<>>, svc |-> NoService,
     audited |-> FALSE, logs |-> <<>>, audit |-> <<>>,
     created |-> <<>>, inserted |-> <<>>, startedAt |-> 0]

\* the most uuids one request draws: trace id, Ssp-TraceID, four mock slots
MaxUuidsPerRequest == 6

\* requests are handled one at a time, while uuids remain
CanStart == last = Idle /\ uuidCount + MaxUuidsPerRequest <= MaxUuid

\* clock reads one request makes at most
SearchClockReads == 3
BookClockReads == 6

DbOutcomes == IF demoDirectory THEN {FALSE} ELSE BOOLEAN

\* the environment produces an outcome only at the points a request reaches:
\* r is the response, sent says whether the practice endpoint was called
Reaches(r, dbThrows, sent, elapsed) ==
    /\ dbThrows => r.svc.called
    /\ sent <=> r.svc.sent # <<>>
    /\ \A i \in DOMAIN elapsed : i >= r.reads => elapsed[i] = 0

\* GET /api/appointments/availability, from request to response
SearchAvailability(query, dbThrows, slotResponse, elapsed) ==
    /\ last = Idle
    /\ \E r \in {availabilityResponse(query,
                    [dbThrows |-> dbThrows, slotResponse |-> slotResponse,
                     elapsed |-> elapsed], uuidCount)} :
         /\ Reaches(r, dbThrows, slotResponse # NoResponse, elapsed)
         /\ \E audit \in {auditAction("search", "appointment_slots", "", "",
                                      query, r.traceId, r.status)} :
              last' = [op |-> "availability",
                       token |-> NoToken,
                       input |-> query,
                       env |-> [dbThrows |-> dbThrows,
                                slotResponse |-> slotResponse,
                                postOutcome |-> "not-called",
                                insertThrows |-> FALSE],
                       traceId |-> r.traceId,
                       status |-> r.status,
                       body |-> r.body,
                       svc |-> r.svc,
                       audited |-> TRUE,
                       logs |-> r.logs \o auditLogs(audit),
                       audit |-> audit,
                       created |-> <<>>,
                       inserted |-> <<>>,
                       startedAt |-> clock]
         /\ uuidCount' = r.uuids
    /\ clock' = readClock(elapsed, Len(elapsed) + 1)
    /\ UNCHANGED <<config, appointments, practiceHeld, browser, served>>

\* POST /api/appointments/book, from request to response
BookAppointment(request, dbThrows, postOutcome, insertThrows, elapsed) ==
    /\ last = Idle
    /\ insertThrows => postOutcome = "created"
    /\ \E r \in {bookingResponse(request.token, request.body,
                    [dbThrows |-> dbThrows, postOutcome |-> postOutcome,
                     insertThrows |-> insertThrows, elapsed |-> elapsed],
                    uuidCount)} :
         /\ Reaches(r, dbThrows, postOutcome # "not-called", elapsed)
         /\ \E audit \in {IF r.audited
                          THEN auditAction("book", "appointment", r.userId,
                                   r.userRole, request.body, r.traceId, r.status)
                          ELSE <<>>} :
              last' = [op |-> "book",
                       token |-> request.token,
                       input |-> request.body,
                       env |-> [dbThrows |-> dbThrows,
                                slotResponse |-> NoResponse,
                                postOutcome |-> postOutcome,
                                insertThrows |-> insertThrows],
                       traceId |-> r.traceId,
                       status |-> r.status,
                       body |-> r.body,
                       svc |-> r.svc,
                       audited |-> r.audited,
                       logs |-> r.logs \o auditLogs(audit),
                       audit |-> audit,
                       created |-> r.created,
                       inserted |-> r.inserted,
                       startedAt |-> clock]
         /\ uuidCount' = r.uuids
         /\ appointments' = appointments \o r.inserted
         /\ practiceHeld' = practiceHeld \o r.created
    /\ clock' = readClock(elapsed, Len(elapsed) + 1)
    /\ UNCHANGED <<config, browser, served>>

\* the response has gone out; the request's data is dropped
ResponseDelivered ==
    /\ last # Idle
    /\ last' = Idle
    /\ UNCHANGED <<config, appointments, practiceHeld, clock, uuidCount,
                   browser, served>>

\* time passes between requests
Tick ==
    /\ last = Idle
    /\ clock < MaxClock
    /\ clock' = clock + 1
    /\ UNCHANGED <<config, appointments, practiceHeld, uuidCount, last,
                   browser, served>>

Environments == {"production", "development", "demo", "test", ""}
SigningKeys == {"", "private-key", "malformed-key"}

Init ==
    /\ NODE_ENV \in Environments
    /\ GP_CONNECT_JWT_KEY \in SigningKeys
    /\ DB_PASSWORD \in {"", "db-password"}
    /\ JWT_SECRET \in {"", "jwt-secret"}
    /\ appointments = <<>>
    /\ practiceHeld = <<>>
    /\ clock = 0
    /\ uuidCount = 0
    /\ last = Idle
    /\ checked = NotChecked
    /\ served = <<>>
    /\ currentStep = 1
    /\ selectedSlot = <<>>
    /\ bookedAppointment = <<>>
    /\ selectedCareType = <<>>
    /\ selectedCondition = <<>>
    /\ selectedConditionLabel = <<>>
    /\ timers = <<>>
    /\ reasonPreset = ""
    /\ sessionStorage = <<>>
    /\ submitDisabled = FALSE

AvailabilityRequest ==
    /\ CanStart
    /\ \E query \in AvailabilityQueries, dbThrows \in DbOutcomes,
          slotResponse \in SlotResponses \cup {NoResponse},
          elapsed \in Elapsed(SearchClockReads - 1) :
            SearchAvailability(query, dbThrows, slotResponse, elapsed)

BookingRequest ==
    /\ CanStart
    /\ \E request \in BookingRequests, dbThrows \in DbOutcomes,
          postOutcome \in {"not-called", "created", "error"},
          insertThrows \in BOOLEAN,
          elapsed \in Elapsed(BookClockReads - 1) :
            BookAppointment(request, dbThrows, postOutcome, insertThrows, elapsed)

Next ==
    \/ AvailabilityRequest
    \/ BookingRequest
    \/ ResponseDelivered
    \/ Tick

Spec == Init /\ [][Next]_vars

\* Repeated bookings: the same service, taking booking requests one after
\* another while the uuids of MaxBookings successful bookings remain; each
\* request is handled within one tick of the clock
RepeatBodies ==
    {BaseBody, [BaseBody EXCEPT !.gpPracticeODSCode = "B67890"]}

\* uuids a successful booking draws: trace id, appointment id, Ssp-TraceID,
\* email message id
BookingUuids == 4

BookingAgain ==
    /\ last = Idle
    /\ uuidCount + BookingUuids <= MaxBookings * BookingUuids
    /\ \E body \in RepeatBodies, dbThrows \in DbOutcomes,
          postOutcome \in {"not-called", "created", "error"},
          insertThrows \in BOOLEAN :
            BookAppointment([token |-> PatientToken, body |-> body],
                            dbThrows, postOutcome, insertThrows,
                            [i \in 1..(BookClockReads - 1) |-> 0])

NextBookings ==
    \/ BookingAgain
    \/ ResponseDelivered
    \/ Tick

SpecBookings == Init /\ [][NextBookings]_vars

\* Repeated searches: the service taking availability requests one after
\* another while the uuids of MaxSearches mock answers remain; each request
\* is handled within one tick of the clock
MaxSearches == 2       \* searches answered with mock slots in a row

\* uuids a search answered with mock slots draws: trace id, four slot ids
SearchUuids == 5

SearchAgain ==
    /\ last = Idle
    /\ uuidCount + SearchUuids <= MaxSearches * SearchUuids
    /\ \E code \in {"A12345", "B67890"}, dbThrows \in DbOutcomes,
          slotResponse \in SlotResponses \cup {NoResponse} :
            SearchAvailability([BaseQuery EXCEPT !.gpPracticeODSCode = code],
                               dbThrows, slotResponse,
                               [i \in 1..(SearchClockReads - 1) |-> 0])

\* the response has gone out, and the caller keeps the slot list of a
\* successful answer
ResponseKept ==
    /\ last # Idle
    /\ last' = Idle
    /\ served' = IF last.op = "availability" /\ last.status = 200
                 THEN <<[gpPracticeODSCode |-> last.input.gpPracticeODSCode,
                         slots |-> last.body.data.slots]>>
                 ELSE served
    /\ UNCHANGED <<config, appointments, practiceHeld, clock, uuidCount,
                   browser>>

NextSearches ==
    \/ SearchAgain
    \/ ResponseKept
    \/ Tick

SpecSearches == Init /\ [][NextSearches]_vars

\* Bookings and cancellations: the service taking booking and cancel requests
\* one after another, each handled within one tick of the clock
MaxRequestUuids == 9   \* uuids the requests of one behaviour may draw:
                       \* those of two bookings and one cancel

RequestBudget == MaxRequestUuids

CancelTokens ==
    {PatientToken, NoToken,
     bearer("patient", "forged-secret", FALSE),
     bearer("patient", "jwt-secret", TRUE),
     bearer("receptionist", "jwt-secret", FALSE),
     bearer("admin", "jwt-secret", FALSE)}

CancelBodies == {[cancellationReason |-> "Feeling better"], <<>>}

\* DELETE /api/appointments/:appointmentId, from request to response
CancelAppointment(token, appointmentId, body, dbThrows) ==
    /\ last = Idle
    /\ \E r \in {cancelResponse(token, appointmentId, body, appointments,
                    [dbThrows |-> dbThrows, elapsed |-> <<>>], uuidCount)} :
         /\ dbThrows => r.audited
         /\ \E audit \in {IF r.audited
                          THEN auditAction("cancel", "appointment", r.userId,
                                   r.userRole, body, r.traceId, r.status)
                          ELSE <<>>} :
              last' = [op |-> "cancel",
                       token |-> token,
                       input |-> [appointmentId |-> appointmentId,
                                  body |-> body],
                       env |-> [dbThrows |-> dbThrows,
                                slotResponse |-> NoResponse,
                                postOutcome |-> "not-called",
                                insertThrows |-> FALSE],
                       traceId |-> r.traceId,
                       status |-> r.status,
                       body |-> r.body,
                       svc |-> r.svc,
                       audited |-> r.audited,
                       logs |-> r.logs \o auditLogs(audit),
                       audit |-> audit,
                       created |-> <<>>,
                       inserted |-> <<>>,
                       startedAt |-> clock]
         /\ uuidCount' = r.uuids
         /\ appointments' = r.rows
    /\ UNCHANGED <<config, practiceHeld, clock, browser, served>>

\* the id in the path: that of a local record, or one no record has
CancelRequest ==
    /\ last = Idle
    /\ uuidCount + 1 <= RequestBudget
    /\ \E token \in CancelTokens, body \in CancelBodies, dbThrows \in BOOLEAN,
          appointmentId \in {appointments[i].appointment_id :
                                i \in 1..Len(appointments)} \cup {uuidv4(0)} :
            CancelAppointment(token, appointmentId, body, dbThrows)

BookingBefore ==
    /\ last = Idle
    /\ uuidCount + BookingUuids <= RequestBudget
    /\ \E token \in CancelTokens, body \in RepeatBodies, dbThrows \in DbOutcomes,
          postOutcome \in {"not-called", "created", "error"},
          insertThrows \in BOOLEAN :
            BookAppointment([token |-> token, body |-> body],
                            dbThrows, postOutcome, insertThrows,
                            [i \in 1..(BookClockReads - 1) |-> 0])

SearchBetween ==
    /\ last = Idle
    /\ uuidCount + SearchUuids <= RequestBudget
    /\ \E dbThrows \in DbOutcomes, slotResponse \in SlotResponses \cup {NoResponse} :
            SearchAvailability(BaseQuery, dbThrows, slotResponse,
                               [i \in 1..(SearchClockReads - 1) |-> 0])

NextCancel ==
    \/ BookingBefore
    \/ CancelRequest
    \/ SearchBetween
    \/ ResponseDelivered
    \/ Tick

\* the signing key and the database are configured
InitCancel ==
    /\ Init
    /\ NODE_ENV \in {"production", "development", "demo"}
    /\ GP_CONNECT_JWT_KEY = "private-key"
    /\ DB_PASSWORD = "db-password"

SpecCancel == InitCancel /\ [][NextCancel]_vars

\* The identifier validator of the booking wizard, applied in the browser to
\* what the patient typed; the server plays no part
FreeChars == 3         \* trailing characters of the identifier that vary

TypedChars == Range(DigitChars) \cup {"A", "-"}

\* the leading digits of a valid identifier, then FreeChars typed characters
Identifiers ==
    {SubSeq(ValidNhsNumber, 1, NhsNumberLength - FreeChars) \o tail :
        tail \in [1..FreeChars -> TypedChars]}
    \cup {<<>>, NineDigits, ElevenDigits}

Validate(nhsNumber) ==
    /\ ~checked.called
    /\ checked' = [called |-> TRUE, input |-> nhsNumber,
                   result |-> validateNHSNumber(nhsNumber)]
    /\ UNCHANGED <<config, appointments, practiceHeld, clock, uuidCount, last,
                   served, wizard>>

InitValidator ==
    /\ Init
    /\ NODE_ENV = "production" /\ GP_CONNECT_JWT_KEY = "private-key"
    /\ DB_PASSWORD = "db-password" /\ JWT_SECRET = "jwt-secret"

\* the patient clears the field and types again
Retype ==
    /\ checked.called
    /\ checked' = NotChecked
    /\ UNCHANGED <<config, appointments, practiceHeld, clock, uuidCount, last,
                   served, wizard>>

NextValidator ==
    \/ \E nhsNumber \in Identifiers : Validate(nhsNumber)
    \/ Retype

SpecValidator == InitValidator /\ [][NextValidator]_vars

\* The booking wizard in the browser: the handlers bound by
\* bindGlobalHandlers and setupConditionHandlers, and the callbacks they set
\* with setTimeout. A control takes events while its step is the active one.
MaxPending == 4        \* callbacks that may be waiting to run

\* a variable of the script holds null (unset) or a value (<<value>>)
unset == <<>>

CareTypes == {"routine", "urgent"}

Conditions ==
    {[value |-> "back-pain", label |-> "Back pain"],
     [value |-> "headache", label |-> "Headache or migraine"]}

\* fillReasonPreset: the text put into reasonPreset
fillReasonPreset(careType, label) ==
    IF careType = <<"routine">> THEN "Annual checkup"
    ELSE IF label = unset THEN "" ELSE label[1]

\* nextStep and goToStep call fillReasonPreset on arriving at step 3
presetAt(step, careType, label, preset) ==
    IF step = 3 THEN fillReasonPreset(careType, label) ELSE preset

\* nextStep()
nextStep ==
    /\ currentStep' = currentStep + 1
    /\ reasonPreset' = presetAt(currentStep + 1, selectedCareType,
                                selectedConditionLabel, reasonPreset)

\* goToStep(targetStep)
goToStep(targetStep) ==
    /\ currentStep' = targetStep
    /\ reasonPreset' = presetAt(targetStep, selectedCareType,
                                selectedConditionLabel, reasonPreset)

\* prevStep()
prevStep ==
    /\ currentStep' = currentStep - 1
    /\ UNCHANGED reasonPreset

server == <<config, appointments, practiceHeld, clock, uuidCount, last,
            served, checked>>

\* click on a care-type card: selectCareType(careType)
selectCareType(careType) ==
    /\ currentStep = 1
    /\ Len(timers) < MaxPending
    /\ selectedCareType' = <<careType>>
    /\ selectedConditionLabel' = IF careType = "routine"
                                 THEN <<"Annual checkup">>
                                 ELSE selectedConditionLabel
    /\ timers' = Append(timers, IF careType = "routine" THEN "goToStep(3)"
                                ELSE "nextStep")
    /\ UNCHANGED <<server, currentStep, selectedSlot, bookedAppointment,
                   selectedCondition, reasonPreset, sessionStorage,
                   submitDisabled>>

\* createMockAppointment()
createMockAppointment ==
    [appointment |-> [id |-> "APT-1", status |-> "booked"],
     notifications |-> <<[method |-> "email", success |-> TRUE],
                         [method |-> "mesh", success |-> TRUE]>>]

\* the callback that has waited longest runs
TimerFires ==
    /\ timers # <<>>
    /\ timers' = Tail(timers)
    /\ IF Head(timers) = "goToStep(3)"
       THEN goToStep(3) /\ UNCHANGED bookedAppointment
       ELSE IF Head(timers) = "nextStep"
       THEN nextStep /\ UNCHANGED bookedAppointment
       ELSE nextStep /\ bookedAppointment' = <<createMockAppointment>>
    /\ UNCHANGED <<server, selectedSlot, selectedCareType, selectedCondition,
                   selectedConditionLabel, sessionStorage, submitDisabled>>

\* click on a condition row
selectCondition(condition) ==
    /\ currentStep = 2
    /\ selectedCondition' = <<condition.value>>
    /\ selectedConditionLabel' = <<condition.label>>
    /\ UNCHANGED <<server, currentStep, selectedSlot, bookedAppointment,
                   selectedCareType, timers, reasonPreset, sessionStorage,
                   submitDisabled>>

\* click on conditionNextBtn
conditionNext ==
    /\ currentStep = 2
    /\ selectedCondition # unset
    /\ nextStep
    /\ UNCHANGED <<server, selectedSlot, bookedAppointment, selectedCareType,
                   selectedCondition, selectedConditionLabel, timers,
                   sessionStorage, submitDisabled>>

\* click on step2BackBtn or on step4BackBtn
stepBack ==
    /\ currentStep \in {2, 4}
    /\ prevStep
    /\ UNCHANGED <<server, selectedSlot, bookedAppointment, selectedCareType,
                   selectedCondition, selectedConditionLabel, timers,
                   sessionStorage, submitDisabled>>

\* the reason the patient form's submit handler puts together
combinedReason(preset, extra) ==
    IF extra = "" THEN preset
    ELSE IF preset = "" THEN "- " \o extra
    ELSE preset \o " - " \o extra

\* submit of patientForm with what the fields hold
submitPatientForm(nhsNumber, extra) ==
    /\ currentStep = 3
    /\ Len(combinedReason(reasonPreset, extra)) >= MinReasonLen
    /\ validateNHSNumber(nhsNumber)
    /\ sessionStorage' = <<[nhsNumber |-> nhsNumber,
                            reasonForAppointment |->
                                combinedReason(reasonPreset, extra)]>>
    /\ nextStep
    /\ UNCHANGED <<server, selectedSlot, bookedAppointment, selectedCareType,
                   selectedCondition, selectedConditionLabel, timers,
                   submitDisabled>>

\* click on a slot card: selectSlot(slotId, element)
selectSlot(slotId) ==
    /\ currentStep = 4
    /\ selectedSlot' = <<slotId>>
    /\ UNCHANGED <<server, currentStep, bookedAppointment, selectedCareType,
                   selectedCondition, selectedConditionLabel, timers,
                   reasonPreset, sessionStorage, submitDisabled>>

\* submit of contactForm: the button is disabled, the rest runs after 1500 ms
submitContactForm ==
    /\ currentStep = 5
    /\ ~submitDisabled
    /\ Len(timers) < MaxPending
    /\ submitDisabled' = TRUE
    /\ timers' = Append(timers, "booked")
    /\ UNCHANGED <<server, currentStep, selectedSlot, bookedAppointment,
                   selectedCareType, selectedCondition, selectedConditionLabel,
                   reasonPreset, sessionStorage>>

\* click on bookAnotherBtn: bookAnother()
bookAnother ==
    /\ currentStep = 6
    /\ currentStep' = 1
    /\ selectedSlot' = unset
    /\ bookedAppointment' = unset
    /\ selectedCareType' = unset
    /\ selectedCondition' = unset
    /\ sessionStorage' = <<>>
    /\ reasonPreset' = ""
    /\ UNCHANGED <<server, selectedConditionLabel, timers, submitDisabled>>

InitWizard ==
    /\ Init
    /\ NODE_ENV = "demo" /\ GP_CONNECT_JWT_KEY = ""
    /\ DB_PASSWORD = "" /\ JWT_SECRET = "jwt-secret"

NextWizard ==
    \/ \E careType \in CareTypes : selectCareType(careType)
    \/ TimerFires
    \/ \E condition \in Conditions : selectCondition(condition)
    \/ conditionNext
    \/ stepBack
    \/ \E nhsNumber \in {ValidNhsNumber, WrongCheckDigit},
          extra \in {"", "since Monday"} : submitPatientForm(nhsNumber, extra)
    \/ \E slotId \in {"slot-1", "slot-2"} : selectSlot(slotId)
    \/ submitContactForm
    \/ bookAnother

SpecWizard == InitWizard /\ [][NextWizard]_vars

-----------------------------------------------------------------------------
(* Vocabulary of the properties *)

IsClientError(status) == status >= 400 /\ status <= 499

\* the organization code is in neither the table nor the sample list
NotInDirectory(code) ==
    /\ \A i \in 1..Len(gp_practices) : gp_practices[i].ods_code # code
    /\ \A i \in 1..Len(mockPractices) : mockPractices[i].ods_code # code

\* the lookup of the request handled last resolved a practice
PracticeResolved ==
    /\ "gpPracticeODSCode" \in DOMAIN last.input
    /\ getPracticeByODS(last.input.gpPracticeODSCode, last.env.dbThrows).value # null

SearchServed == last.op = "availability" /\ last.svc.called
BookingServed == last.op = "book" /\ last.svc.called

\* a signing key is configured, signing is attempted, and it fails
AssertionFails ==
    NODE_ENV # "demo" /\ GP_CONNECT_JWT_KEY = "malformed-key"

\* the slot-search call was made and rejected, or its response cannot be
\* transformed
SlotCallFails ==
    \/ last.env.slotResponse.status \in {"error", "empty-body"}
    \/ /\ last.env.slotResponse.status = "ok"
       /\ "entry" \in DOMAIN last.env.slotResponse.data
       /\ BrokenEntry \in Range(last.env.slotResponse.data.entry)

AllFree(slots) == \A i \in 1..Len(slots) : slots[i].status = "free"

SlotFields == {"id", "start", "end", "status", "practitioner"}

\* the duration a booking body asks for
RequestedDuration(body) ==
    IF "duration" \in DOMAIN body THEN body.duration ELSE 15

\* C1 (as claimed): availability search for an organization code that is
\* not in the practice directory ends in a 4xx not-found failure, never in
\* a slot list.
C1_UnknownPracticeSearchFails ==
    (SearchServed /\ NotInDirectory(last.input.gpPracticeODSCode))
        => (IsClientError(last.status) /\ last.body.success = FALSE)

\* C2 (as claimed): booking for an organization code that is not in the
\* practice directory ends in an error returned to the caller, in every
\* configuration, with no call to a practice endpoint and no local insert.
C2_UnknownPracticeBookingFails ==
    (BookingServed /\ NotInDirectory(last.input.gpPracticeODSCode))
        => /\ last.svc.throws
           /\ IsClientError(last.status)
           /\ last.svc.sent = <<>>
           /\ last.inserted = <<>>

\* C3: for a known practice availability search never propagates an error,
\* and whenever assertion generation, the slot-search call or the
\* transformation of its response fails, the result is the mock list of
\* exactly 4 slots, all free.
C3_SearchNeverPropagates ==
    (SearchServed /\ PracticeResolved)
        => /\ ~last.svc.throws
           /\ last.status = 200
           /\ (AssertionFails \/ SlotCallFails)
                => /\ Len(last.svc.value) = 4
                   /\ AllFree(last.svc.value)
                   /\ last.svc.events[Len(last.svc.events)] = "getMockSlots"
                   /\ last.body.data.slots = last.svc.value

\* C3 witness: the slot-search call was made for a known practice, its
\* response could not be transformed, and four free slots were returned
C3_Witness ==
    /\ SearchServed /\ PracticeResolved
    /\ last.svc.sent # <<>>
    /\ last.env.slotResponse.status = "ok"
    /\ SlotCallFails
    /\ Len(last.svc.value) = 4

\* C4: in demo or no-signing-key configuration, availability search for a
\* known practice returns the 4 mock slots, each with id, start, end,
\* status and practitioner, without generating an assertion and without
\* calling the practice endpoint.
C4_DemoSearchReturnsMockSlots ==
    (SearchServed /\ PracticeResolved
        /\ (NODE_ENV = "demo" \/ GP_CONNECT_JWT_KEY = ""))
        => /\ last.status = 200
           /\ Len(last.body.data.slots) = 4
           /\ \A i \in 1..4 : DOMAIN last.body.data.slots[i] = SlotFields
           /\ "generateJWT" \notin Range(last.svc.events)
           /\ last.svc.sent = <<>>

\* C4 witness: a search in a non-demo environment without a signing key
\* answered with four slots
C4_Witness ==
    /\ SearchServed /\ PracticeResolved
    /\ NODE_ENV = "production" /\ GP_CONNECT_JWT_KEY = ""
    /\ last.status = 200
    /\ Len(last.body.data.slots) = 4

\* a failure inside booking orchestration: practice not found, assertion
\* failure, external create failure or local insert failure
BookingFails ==
    \/ ~PracticeResolved
    \/ AssertionFails
    \/ last.env.postOutcome = "error"
    \/ last.env.insertThrows

\* C5: in production configuration any failure inside booking
\* orchestration propagates to the caller: bookAppointment returns no
\* BookingResult and the endpoint does not answer 201.
C5_ProductionFailurePropagates ==
    (BookingServed /\ NODE_ENV = "production" /\ BookingFails)
        => /\ last.svc.throws
           /\ last.svc.value = <<>>
           /\ last.status # 201
           /\ IsClientError(last.status)

\* C5 witness: in production the external create succeeded, the local
\* insert failed, and the request was answered with an error
C5_Witness ==
    /\ BookingServed /\ NODE_ENV = "production"
    /\ last.env.postOutcome = "created" /\ last.env.insertThrows
    /\ last.status = 400

\* C6 (as claimed): in every non-production configuration a failure inside
\* booking orchestration is masked by the canned mock success result.
C6_NonProductionFailureMasked ==
    (BookingServed /\ NODE_ENV # "production" /\ BookingFails)
        => /\ ~last.svc.throws
           /\ last.status = 201
           /\ "getMockBookingResponse" \in Range(last.svc.events)

\* C7 (as claimed): booking orchestration begins only for a patient
\* identifier that passes the modulus-11 checksum validator.
C7_OrchestrationNeedsChecksum ==
    BookingServed => validateNHSNumber(last.input.patientNHSNumber)

\* what the validation rules reject, stated on the raw request
BadOdsCode(input) ==
    \/ "gpPracticeODSCode" \notin DOMAIN input
    \/ Len(input.gpPracticeODSCode) < 3
    \/ Len(input.gpPracticeODSCode) > 10

BadBooking(body) ==
    \/ BadOdsCode(body)
    \/ Len(body.patientNHSNumber) # 10
    \/ \E i \in 1..Len(body.patientNHSNumber) :
            body.patientNHSNumber[i] \notin Range(DigitChars)
    \/ "duration" \in DOMAIN body /\ (body.duration < 10 \/ body.duration > 60)
    \/ Len(body.reasonForAppointment) < 10
    \/ Len(body.reasonForAppointment) > 500
    \/ body.appointmentType \notin {"routine", "urgent", "emergency", "follow-up"}
    \/ body.urgency \notin {"routine", "urgent", "emergency"}
    \/ "bookedBy" \notin DOMAIN body
    \/ /\ "email" \in DOMAIN body.contactPreferences
       /\ body.contactPreferences.email # "patient@example.com"

BadQuery(query) ==
    \/ BadOdsCode(query)
    \/ query.fromDate \notin {"2024-12-01", "2024-12-07"}
    \/ query.toDate \notin {"2024-12-01", "2024-12-07"}
    \/ "duration" \in DOMAIN query
          /\ query.duration \notin {"10", "15", "30", "60"}

C9_ResultEchoesRequest ==
    (BookingServed /\ PracticeResolved /\ ~last.svc.throws)
        => LET appointment == last.body.data.appointment
           IN  /\ last.status = 201
               /\ appointment.minutesDuration = RequestedDuration(last.input)
               /\ Len(appointment.participant) = 1
               /\ appointment.participant[1].actor.value
                    = last.input.patientNHSNumber
               /\ appointment.participant[1].status = "accepted"

\* C9 witness: a booking of 60 minutes for a known practice failed at the
\* practice endpoint and was answered from the mock fallback
C9_Witness ==
    /\ BookingServed /\ PracticeResolved
    /\ last.env.postOutcome = "error"
    /\ "duration" \in DOMAIN last.input
    /\ last.input.duration = 60
    /\ last.status = 201

\* C10 (as claimed): in every BookingResult returned with a 201 the
\* appointment's end is exactly `duration` minutes after its start.
C10_EndIsStartPlusDuration ==
    (last.op = "book" /\ last.status = 201)
        => instantOf(last.body.data.appointment.end)
             - instantOf(last.body.data.appointment.start)
           = RequestedDuration(last.input) * 60000

\* C11: bookings are never deduplicated. A booking answered from the real
\* path has issued one external create and persisted one local record even
\* when an identical request was booked before, and all persisted booking
\* identifiers are pairwise distinct.
C11_NoDeduplication ==
    /\ \A i, j \in 1..Len(appointments) :
          i # j => appointments[i].appointment_id # appointments[j].appointment_id
    /\ (last.op = "book" /\ last.status = 201
          /\ "getMockBookingResponse" \notin Range(last.svc.events))
            => /\ Len(last.created) = 1
               /\ Len(last.inserted) = 1
               /\ appointments[Len(appointments)] = last.inserted[1]
               /\ practiceHeld[Len(practiceHeld)] = last.created[1]

\* C11 witness: the same request was booked twice, both answered 201: two
\* creates at the practice, two local rows that agree on patient, practice,
\* reason and duration, and differ in their identifiers
C11_Witness ==
    /\ last.op = "book" /\ last.status = 201
    /\ Len(appointments) = 2 /\ Len(practiceHeld) = 2
    /\ appointments[1].patient_nhs_number = appointments[2].patient_nhs_number
    /\ appointments[1].practice_ods_code = appointments[2].practice_ods_code
    /\ appointments[1].reason_for_appointment
         = appointments[2].reason_for_appointment
    /\ appointments[1].duration_minutes = appointments[2].duration_minutes
    /\ appointments[1].appointment_id # appointments[2].appointment_id

\* C12 (as claimed): every BookingResult returned for a successful booking
\* contains the newly generated booking identifier, the one under which the
\* local record was persisted.
C12_ResultCarriesBookingId ==
    (last.op = "book" /\ last.status = 201)
        => /\ "id" \in DOMAIN last.body.data.appointment
           /\ Len(last.inserted) = 1
           /\ last.body.data.appointment.id = last.inserted[1].appointment_id

\* the reference algorithm: the check digit computed from the first nine
\* digits, 11 minus the weighted sum modulo 11
ReferenceCheckDigit(str) ==
    11 - ((  digitValue(str[1]) * 10 + digitValue(str[2]) * 9
           + digitValue(str[3]) * 8 + digitValue(str[4]) * 7
           + digitValue(str[5]) * 6 + digitValue(str[6]) * 5
           + digitValue(str[7]) * 4 + digitValue(str[8]) * 3
           + digitValue(str[9]) * 2) % 11)

TenAsciiDigits(str) ==
    Len(str) = 10 /\ \A i \in 1..10 : str[i] \in Range(DigitChars)

\* C13 (as claimed): the validator rejects every 10-digit identifier whose
\* computed check digit is exactly 10, whatever its tenth digit is.
C13_CheckDigitTenRejected ==
    (checked.called /\ TenAsciiDigits(checked.input)
        /\ ReferenceCheckDigit(checked.input) = 10)
        => ~checked.result

\* C14: the validator is total and agrees with the reference algorithm: it
\* answers invalid for every string that is not exactly 10 ASCII digits,
\* and for a 10-digit string whose check digit is not 10 it answers valid
\* exactly when the tenth digit equals the check digit, 11 counting as 0.
C14_ValidatorAgreesWithReference ==
    checked.called
        => /\ checked.result \in BOOLEAN
           /\ ~TenAsciiDigits(checked.input) => ~checked.result
           /\ (TenAsciiDigits(checked.input)
                  /\ ReferenceCheckDigit(checked.input) # 10)
                => (checked.result
                      <=> digitValue(checked.input[10])
                            = IF ReferenceCheckDigit(checked.input) = 11
                              THEN 0
                              ELSE ReferenceCheckDigit(checked.input))

\* C14 witness: a 10-digit identifier whose check digit is 11 and whose
\* tenth digit is 0 was found valid
C14_Witness ==
    /\ checked.called /\ TenAsciiDigits(checked.input)
    /\ ReferenceCheckDigit(checked.input) = 11
    /\ checked.input[10] = "0"
    /\ checked.result

\* the directory the lookup consults: the table when persistence is
\* configured, the sample list otherwise
Directory == IF demoDirectory THEN mockPractices ELSE gp_practices

ActiveExists(code) ==
    \E i \in 1..Len(Directory) :
        Directory[i].ods_code = code /\ Directory[i].active

\* the answer the sample list gives for a code
SampleAnswer(code) ==
    IF \E i \in 1..Len(mockPractices) : mockPractices[i].ods_code = code
    THEN mockPractices[CHOOSE i \in 1..Len(mockPractices) :
                            mockPractices[i].ods_code = code]
    ELSE null

\* C15 (as claimed): practice lookup returns null or an active record with
\* the requested code, and null exactly when no active practice with that
\* code exists; an inactive practice is never used.
C15_LookupReturnsActiveMatch ==
    last.svc.called
        => /\ last.svc.practice # null
                => /\ last.svc.practice.ods_code = last.input.gpPracticeODSCode
                   /\ last.svc.practice.active
           /\ last.svc.practice = null
                <=> ~ActiveExists(last.input.gpPracticeODSCode)
           /\ last.svc.sent # <<>> => last.svc.practice # null

\* C16 (as claimed): when the persistent lookup raises an error, practice
\* lookup answers from the sample list, for every code as it does when
\* persistence is not configured.
C16_LookupErrorFallsBackToSamples ==
    (last.svc.called /\ last.env.dbThrows)
        => last.svc.practice = SampleAnswer(last.input.gpPracticeODSCode)

\* C17 (as claimed): when a configured signing key is malformed, the error
\* raised by assertion generation reaches the caller of availability search
\* and of booking in every configuration, and is never replaced by mock
\* slots or a mock booking.
C17_MalformedKeyPropagates ==
    (last.svc.called /\ GP_CONNECT_JWT_KEY = "malformed-key"
        /\ "generateJWT" \in Range(last.svc.events))
        => /\ last.svc.throws
           /\ last.svc.error = "secretOrPrivateKey must be an asymmetric key"
           /\ IsClientError(last.status)
           /\ "getMockSlots" \notin Range(last.svc.events)
           /\ "getMockBookingResponse" \notin Range(last.svc.events)

\* a placeholder token went out as the bearer credential of a request to a
\* practice endpoint
PlaceholderSent ==
    \E i \in 1..Len(last.svc.sent) :
        last.svc.sent[i].authorization.kind = "placeholder"

\* C18 (as claimed): in production with no signing key configured,
\* availability search and booking for a known practice surface a
\* configuration error: no placeholder token is sent to a practice endpoint
\* and no mock slot list is substituted.
C18_ProductionWithoutKeyFails ==
    (NODE_ENV = "production" /\ GP_CONNECT_JWT_KEY = ""
        /\ last.svc.called /\ last.svc.practice # null)
        => /\ last.svc.throws
           /\ IsClientError(last.status)
           /\ ~PlaceholderSent
           /\ "getMockSlots" \notin Range(last.svc.events)

\* C19 (as claimed): every failure response (status 400 or above),
\* rejections by authentication and by the role check included, carries
\* the request's trace identifier.
C19_FailureCarriesTraceId ==
    (last.op # "none" /\ last.status >= 400)
        => /\ "traceId" \in DOMAIN last.body
           /\ last.body.traceId = last.traceId

\* C20 (as claimed): no log entry written while handling a booking, on
\* success or on failure, contains the patient's full 10-digit identifier.
C20_NoFullIdentifierInLogs ==
    last.op = "book"
        => \A i \in 1..Len(last.logs) :
              \A j \in 1..Len(last.logs[i].patient) :
                  ~TenAsciiDigits(last.logs[i].patient[j])

\* a cancel request is handled in this step
CancelStep == last.op = "none" /\ last'.op = "cancel"

\* the columns the cancel update writes
CancelColumns == {"status", "cancellation_reason", "cancelled_at"}

\* C21: cancelling a booking by id is local-only: the record with that id
\* becomes cancelled, with the reason given and the time of the request; no
\* practice endpoint is called; every other local record and the appointments
\* held by the practices are unchanged.
C21_CancelIsLocalOnly ==
    [][CancelStep =>
         /\ practiceHeld' = practiceHeld
         /\ ~last'.svc.called /\ last'.svc.sent = <<>>
         /\ Len(appointments') = Len(appointments)
         /\ \A i \in 1..Len(appointments) :
              IF last'.status = 200
                 /\ appointments[i].appointment_id = last'.input.appointmentId
              THEN /\ appointments'[i].status = "cancelled"
                   /\ appointments'[i].cancelled_at = clock
                   /\ "cancellationReason" \in DOMAIN last'.input.body
                        => appointments'[i].cancellation_reason
                             = last'.input.body.cancellationReason
                   /\ \A f \in DOMAIN appointments[i] \ CancelColumns :
                        appointments'[i][f] = appointments[i][f]
              ELSE appointments'[i] = appointments[i]]_vars

\* C21 witness: a cancel answered 200 that cancelled one of two local records
\* while the practice holds appointments
C21_Witness ==
    /\ last.op = "cancel" /\ last.status = 200
    /\ practiceHeld # <<>>
    /\ \E i, j \in 1..Len(appointments) :
         /\ appointments[i].appointment_id = last.input.appointmentId
         /\ appointments[i].status = "cancelled"
         /\ appointments[j].status = "booked"

\* the slot lists agree in slot identifiers, times and practitioners
SameSlots(a, b) ==
    /\ Len(a) = Len(b)
    /\ \A i \in 1..Len(a) :
         /\ a[i].id = b[i].id
         /\ a[i].start = b[i].start /\ a[i].end = b[i].end
         /\ a[i].practitioner = b[i].practitioner

\* C22 (as claimed): two availability searches for the same known practice in
\* the same demo or no-signing-key configuration return identical mock slot
\* lists.
C22_MockSlotsDeterministic ==
    /\ last.op = "availability" /\ last.status = 200
    /\ demoSlots
    /\ served # <<>>
    /\ served[1].gpPracticeODSCode = last.input.gpPracticeODSCode
    /\ ~NotInDirectory(last.input.gpPracticeODSCode)
    => SameSlots(last.body.data.slots, served[1].slots)

\* a booking request is handled in this step
BookStep == last.op = "none" /\ last'.op = "book"

\* the steps of the orchestration, in the order claimed
OrchestrationSteps ==
    <<"getPracticeByODS", "generateJWT", "POST /Appointment",
      "insert appointments", "sendPracticeNotifications">>

\* the steps the try block entered
StepsEntered(events) ==
    SelectSeq(events, LAMBDA e : e # "getMockBookingResponse")

IsPrefix(a, b) == Len(a) <= Len(b) /\ SubSeq(b, 1, Len(a)) = a

\* C23: the orchestration runs lookup, assertion, external create, local
\* insert, notification dispatch in that order; a local record is written
\* only after the external create succeeded, notifications are dispatched
\* only after the local insert succeeded, and a failed external create leaves
\* the local store unchanged.
C23_OrchestrationOrder ==
    [][BookStep /\ last'.svc.called =>
         /\ IsPrefix(StepsEntered(last'.svc.events), OrchestrationSteps)
         /\ appointments' # appointments
              => /\ last'.env.postOutcome = "created"
                 /\ last'.created # <<>>
                 /\ practiceHeld' = practiceHeld \o last'.created
         /\ "sendPracticeNotifications" \in Range(last'.svc.events)
              => /\ ~last'.env.insertThrows
                 /\ appointments' = appointments \o last'.inserted
                 /\ last'.inserted # <<>>
         /\ last'.env.postOutcome = "error" => appointments' = appointments]_vars

\* C23 witness: an external create has failed after an earlier booking went
\* through all the steps, and the local store holds the earlier record only
C23_Witness ==
    /\ last.op = "book" /\ last.env.postOutcome = "error"
    /\ last.svc.sent # <<>>
    /\ Len(appointments) = 1 /\ Len(practiceHeld) = 1

\* appointments the practices hold that have no local record
Unrecorded == Len(practiceHeld) - Len(appointments)

\* C24: when the external create succeeds and the local insert then fails,
\* the request ends with the appointment held by the practice and no local
\* record for it; and no step of any operation afterwards retracts an
\* appointment from a practice or supplies a missing local record.
C24_InsertFailureNeverReconciled ==
    [][/\ BookStep /\ last'.env.insertThrows /\ last'.svc.sent # <<>>
          => /\ practiceHeld' = practiceHeld \o last'.created
             /\ last'.created # <<>>
             /\ appointments' = appointments
       /\ IsPrefix(practiceHeld, practiceHeld')
       /\ Unrecorded' >= Unrecorded]_vars

\* C24 witness: a cancel request has been answered while a practice holds an
\* appointment whose insert failed
C24_Witness ==
    /\ last.op = "cancel" /\ last.status = 200
    /\ Unrecorded > 0

\* the signed assertions sent to a practice endpoint by the request handled last
SignedAssertions ==
    {a \in {last.svc.sent[i].authorization : i \in 1..Len(last.svc.sent)} :
        a.kind = "signed"}

\* C25 (as claimed): in every signed assertion the requesting device is the
\* local system identifier, the same value as issuer and subject, and the
\* audience is the target endpoint.
C25_DeviceIsLocalSystem ==
    \A a \in SignedAssertions :
        /\ a.iss = NHS_ASID /\ a.sub = NHS_ASID
        /\ a.requesting_device = NHS_ASID
        /\ a.aud = last.svc.practice.gp_connect_endpoint

\* C26 (as claimed): every slot candidate an availability search returns has
\* status free, whatever slot resources the practice endpoint returned.
C26_OnlyFreeSlotsReturned ==
    last.op = "availability" /\ last.status = 200
        => AllFree(last.body.data.slots)

\* the token verifies under the configured secret
Verifies(token) ==
    /\ token.kind = "bearer"
    /\ JWT_SECRET # ""
    /\ token.signedWith = JWT_SECRET /\ ~token.expired

\* the token verifies and carries one of the three roles
Authorised(token) == Verifies(token) /\ token.role \in BookingRoles

\* the handler of the request handled last was entered
HandlerRan(r) == r.audited \/ r.svc.called

\* C27: the booking orchestrator and the cancel update run only for a request
\* whose bearer token verifies under the configured secret with role patient,
\* practitioner or admin; a missing token is answered 401, an unverifiable
\* token or an unset secret 403, any other role 403; a rejected request causes
\* no practice lookup, no external call and no database write.
C27_HandlersNeedAuthorisedToken ==
    [][BookStep \/ CancelStep =>
         /\ HandlerRan(last') => Authorised(last'.token)
         /\ last'.token.kind = "none" => last'.status = 401
         /\ last'.token.kind = "bearer" /\ ~Verifies(last'.token)
              => last'.status = 403
         /\ Verifies(last'.token) /\ last'.token.role \notin BookingRoles
              => last'.status = 403
         /\ ~Authorised(last'.token)
              => /\ ~last'.svc.called /\ last'.svc.events = <<>>
                 /\ last'.svc.sent = <<>>
                 /\ last'.audit = <<>>
                 /\ appointments' = appointments
                 /\ practiceHeld' = practiceHeld]_vars

\* C27 witness: a cancel request with a verified token of another role has
\* been answered 403 while a booked local record exists
C27_Witness ==
    /\ last.op = "cancel" /\ last.status = 403
    /\ Verifies(last.token) /\ last.token.role = "receptionist"
    /\ \E i \in 1..Len(appointments) :
         /\ appointments[i].appointment_id = last.input.appointmentId
         /\ appointments[i].status = "booked"

\* C28 (as claimed): every request to the booking, cancel or availability
\* endpoint that receives a response, one rejected by authentication or by
\* the role check included, produces exactly one audit entry, whose outcome
\* is failure exactly when the response status is 400 or above.
C28_OneAuditEntryPerResponse ==
    last.op \in {"book", "cancel", "availability"}
        => /\ Len(last.audit) = 1
           /\ \A i \in 1..Len(last.audit) :
                last.audit[i].entry.outcome = "failure" <=> last.status >= 400

\* the patient form went through with what sessionStorage holds
FormAccepted ==
    /\ sessionStorage # <<>>
    /\ \A i \in 1..Len(sessionStorage) :
         /\ validateNHSNumber(sessionStorage[i].nhsNumber)
         /\ Len(sessionStorage[i].reasonForAppointment) >= MinReasonLen

\* C29 (as claimed): after any sequence of wizard events, several care-type
\* clicks within the 300 ms before the deferred step change included, the
\* wizard is at step 4 or later only if the patient form was submitted with
\* an identifier the validator accepts and a reason of at least 10
\* characters, and at step 3 with a care type other than routine only if a
\* condition was selected.
C29_StepsAreGuarded ==
    /\ currentStep >= 4 => FormAccepted
    /\ currentStep = 3 /\ selectedCareType \notin {unset, <<"routine">>}
         => selectedCondition # unset

\* C30 (as claimed): bookAnother returns the wizard to its initial state:
\* step 1 with no selected slot, booked appointment, care type, condition or
\* condition label.
C30_BookAnotherResets ==
    [][currentStep = 6 /\ currentStep' = 1
         => /\ selectedSlot' = unset /\ bookedAppointment' = unset
            /\ selectedCareType' = unset /\ selectedCondition' = unset
            /\ selectedConditionLabel' = unset]_vars

====
